---- MODULE Spec2Model ----
(***************************************************************************)
(* The TradingCalculator component (src/src/components/                    *)
(* TradingCalculator.tsx): form state, the localStorage load/save effects, *)
(* validateInputs and calculateResults.  The file holds the component      *)
(* twice; lines 1-244 are modelled, and lines 245-436 are the same         *)
(* validateInputs, calculateResults and results note without the           *)
(* localStorage effects.                                                   *)
(*                                                                         *)
(* Field texts are sequences of one-character strings, so that parseFloat  *)
(* is computed from the characters.  JavaScript numbers are modelled as    *)
(* exact rationals n/d plus the two special values NaN and +-Infinity;     *)
(* binary rounding error and overflow of the double range are not          *)
(* modelled.                                                               *)
(***************************************************************************)
EXTENDS Integers, Sequences, FiniteSets, TLC

(***************************************************************************)
(* JavaScript numbers                                                      *)
(***************************************************************************)
RECURSIVE Gcd(_, _)
Gcd(a, b) == IF b = 0 THEN a ELSE Gcd(b, a % b)

AbsInt(i) == IF i < 0 THEN -i ELSE i

SignInt(i) == IF i < 0 THEN -1 ELSE IF i > 0 THEN 1 ELSE 0

\* The finite number n/d in lowest terms (d > 0).
Rat(n, d) ==
    LET g == Gcd(AbsInt(n), d)
    IN  [k |-> "num", n |-> n \div g, d |-> d \div g]

NaN == [k |-> "NaN", n |-> 0, d |-> 1]

\* +Infinity (s = 1) or -Infinity (s = -1).
Inf(s) == [k |-> "Infinity", n |-> s, d |-> 1]

isNaN(x) == x.k = "NaN"

IsFinite(x) == x.k = "num"

Sign(x) == SignInt(x.n)

\* x < y, x <= y, x >= y, x > y of JavaScript: false when either side is NaN.
Lt(x, y) ==
    /\ ~isNaN(x)
    /\ ~isNaN(y)
    /\ IF IsFinite(x) /\ IsFinite(y) THEN x.n * y.d < y.n * x.d
       ELSE IF IsFinite(x) THEN y.n > 0
       ELSE IF IsFinite(y) THEN x.n < 0
       ELSE x.n < y.n

Leq(x, y) == ~isNaN(x) /\ ~isNaN(y) /\ ~Lt(y, x)

Gt(x, y) == Lt(y, x)

Geq(x, y) == Leq(y, x)

\* x * y
Mul(x, y) ==
    IF isNaN(x) \/ isNaN(y) THEN NaN
    ELSE IF IsFinite(x) /\ IsFinite(y) THEN Rat(x.n * y.n, x.d * y.d)
    ELSE IF Sign(x) * Sign(y) = 0 THEN NaN
    ELSE Inf(Sign(x) * Sign(y))

\* x / y: a finite non-zero number divided by zero is Infinity, 0 / 0 is NaN.
Div(x, y) ==
    IF isNaN(x) \/ isNaN(y) THEN NaN
    ELSE IF IsFinite(x) /\ IsFinite(y)
         THEN IF y.n # 0 THEN Rat(x.n * y.d * SignInt(y.n), x.d * AbsInt(y.n))
              ELSE IF x.n = 0 THEN NaN
              ELSE Inf(Sign(x))
    ELSE IF IsFinite(y) THEN Inf(IF y.n < 0 THEN -Sign(x) ELSE Sign(x))
    ELSE IF IsFinite(x) THEN Rat(0, 1)
    ELSE NaN

\* x - y
Sub(x, y) ==
    IF isNaN(x) \/ isNaN(y) THEN NaN
    ELSE IF IsFinite(x) /\ IsFinite(y) THEN Rat(x.n * y.d - y.n * x.d, x.d * y.d)
    ELSE IF IsFinite(y) THEN x
    ELSE IF IsFinite(x) THEN Inf(-Sign(y))
    ELSE IF Sign(x) = Sign(y) THEN NaN
    ELSE x

\* Math.abs
MathAbs(x) ==
    IF isNaN(x) THEN NaN
    ELSE IF IsFinite(x) THEN [x EXCEPT !.n = AbsInt(x.n)]
    ELSE Inf(1)

\* Number(x.toFixed(2)): the nearest multiple of 1/100, a tie going away
\* from zero; NaN and the infinities print as themselves and read back.
toFixed2(x) ==
    IF ~IsFinite(x) THEN x
    ELSE LET m == (200 * AbsInt(x.n) + x.d) \div (2 * x.d)
         IN  Rat(SignInt(x.n) * m, 100)

(***************************************************************************)
(* parseFloat                                                              *)
(***************************************************************************)
Digits == <<"0", "1", "2", "3", "4", "5", "6", "7", "8", "9">>

IsDigit(c) == \E i \in 1..10 : Digits[i] = c

DigitVal(c) == (CHOOSE i \in 1..10 : Digits[i] = c) - 1

\* How many digits s holds from position i on.
RECURSIVE DigitRun(_, _)
DigitRun(s, i) ==
    IF i <= Len(s) /\ IsDigit(s[i]) THEN 1 + DigitRun(s, i + 1) ELSE 0

\* The value of the k digits of s that start at position i.
RECURSIVE DigitsValue(_, _, _)
DigitsValue(s, i, k) ==
    IF k = 0 THEN 0
    ELSE 10 * DigitsValue(s, i, k - 1) + DigitVal(s[i + k - 1])

RECURSIVE Pow10(_)
Pow10(k) == IF k = 0 THEN 1 ELSE 10 * Pow10(k - 1)

\* parseFloat(s): the longest prefix of s that reads as a decimal literal
\* (sign, digits, an optional point and digits), NaN when there is none.
\* What follows the literal is ignored.
parseFloat(s) ==
    LET signed == Len(s) > 0 /\ s[1] \in {"-", "+"}
        neg    == Len(s) > 0 /\ s[1] = "-"
        start  == IF signed THEN 2 ELSE 1
        ni     == DigitRun(s, start)
        dotAt  == start + ni
        hasDot == dotAt <= Len(s) /\ s[dotAt] = "."
        nf     == IF hasDot THEN DigitRun(s, dotAt + 1) ELSE 0
        whole  == DigitsValue(s, start, ni)
        frac   == DigitsValue(s, dotAt + 1, nf)
        mag    == whole * Pow10(nf) + frac
    IN  IF ni + nf = 0 THEN NaN
        ELSE Rat(IF neg THEN -mag ELSE mag, Pow10(nf))

(***************************************************************************)
(* Component state (useState, lines 20-27) and its environment             *)
(***************************************************************************)
VARIABLES
    positionType,   \* 'long' | 'short'
    entryPrice,     \* text of the entry price input
    stopLoss,       \* text of the stop loss input
    initialFunds,   \* text of the initial funds input
    riskTolerance,  \* text of the risk tolerance input
    results,        \* None (null) or Some(CalculationResults)
    errors,         \* ValidationErrors: field -> message or Undefined
    isLoaded,       \* set by the load effect
    localStorage,   \* key -> None (no item) or Some(value)
    pc,             \* "mounted": first render committed, its effects pending;
                    \* "loaded": load effect done, save effects pending;
                    \* "ready": every effect has run
    used,           \* history: the field values of the last calculation
    prev,           \* history: the field values when the previous session ended,
                    \* kept until the first edit of this session
    lastOp,         \* history: the operation that produced this state
    fx              \* the fixed-risk-mode variant of the form (section
                    \* "Fixed risk mode" below); idle in the component above

vars == <<positionType, entryPrice, stopLoss, initialFunds, riskTolerance,
          results, errors, isLoaded, localStorage, pc, used, prev, lastOp, fx>>

None == <<>>

Some(v) == <<v>>

Undefined == "undefined"

ErrorKeys == {"entryPrice", "stopLoss", "initialFunds", "riskTolerance"}

StorageKeys == {"positionType", "entryPrice", "stopLoss", "initialFunds",
                "riskTolerance"}

\* The five persisted field values as one record.
Fields(pt, ep, sl, fu, rt) ==
    [positionType |-> pt, entryPrice |-> ep, stopLoss |-> sl,
     initialFunds |-> fu, riskTolerance |-> rt]

CurrentFields ==
    Fields(positionType, entryPrice, stopLoss, initialFunds, riskTolerance)

(***************************************************************************)
(* validateInputs (lines 77-106)                                           *)
(***************************************************************************)
\* Variant: the isNaN test left out.
entryPriceErrorNoNaN(entryPriceNum) ==
    IF Leq(entryPriceNum, Rat(0, 1))
    THEN "Entry price must be a positive number"
    ELSE Undefined

entryPriceError(entryPriceNum) ==
    IF isNaN(entryPriceNum) \/ Leq(entryPriceNum, Rat(0, 1))
    THEN "Entry price must be a positive number"
    ELSE Undefined

\* Variant: > in place of >= for long positions.
stopLossErrorLongStrict(pt, stopLossNum, entryPriceNum) ==
    IF isNaN(stopLossNum) \/ Leq(stopLossNum, Rat(0, 1))
    THEN "Stop loss must be a positive number"
    ELSE IF pt = "long" /\ Gt(stopLossNum, entryPriceNum)
    THEN "Stop loss must be less than entry price for long positions"
    ELSE IF pt = "short" /\ Leq(stopLossNum, entryPriceNum)
    THEN "Stop loss must be greater than entry price for short positions"
    ELSE Undefined

\* Variant: the short comparison turned around.
stopLossErrorShortSwapped(pt, stopLossNum, entryPriceNum) ==
    IF isNaN(stopLossNum) \/ Leq(stopLossNum, Rat(0, 1))
    THEN "Stop loss must be a positive number"
    ELSE IF pt = "long" /\ Geq(stopLossNum, entryPriceNum)
    THEN "Stop loss must be less than entry price for long positions"
    ELSE IF pt = "short" /\ Geq(stopLossNum, entryPriceNum)
    THEN "Stop loss must be greater than entry price for short positions"
    ELSE Undefined

stopLossError(pt, stopLossNum, entryPriceNum) ==
    IF isNaN(stopLossNum) \/ Leq(stopLossNum, Rat(0, 1))
    THEN "Stop loss must be a positive number"
    ELSE IF pt = "long" /\ Geq(stopLossNum, entryPriceNum)
    THEN "Stop loss must be less than entry price for long positions"
    ELSE IF pt = "short" /\ Leq(stopLossNum, entryPriceNum)
    THEN "Stop loss must be greater than entry price for short positions"
    ELSE Undefined

initialFundsError(initialFundsNum) ==
    IF isNaN(initialFundsNum) \/ Leq(initialFundsNum, Rat(0, 1))
    THEN "Initial funds must be a positive number"
    ELSE Undefined

\* Variant: > 1 in place of >= 1.
riskToleranceErrorInclusive(riskToleranceNum) ==
    IF \/ isNaN(riskToleranceNum)
       \/ Leq(riskToleranceNum, Rat(0, 1))
       \/ Gt(riskToleranceNum, Rat(1, 1))
    THEN "Risk tolerance must be between 0 and 1"
    ELSE Undefined

riskToleranceError(riskToleranceNum) ==
    IF \/ isNaN(riskToleranceNum)
       \/ Leq(riskToleranceNum, Rat(0, 1))
       \/ Geq(riskToleranceNum, Rat(1, 1))
    THEN "Risk tolerance must be between 0 and 1"
    ELSE Undefined

\* newErrors as validateInputs builds it from the fields f.
newErrors(f) ==
    LET entryPriceNum    == parseFloat(f.entryPrice)
        stopLossNum      == parseFloat(f.stopLoss)
        initialFundsNum  == parseFloat(f.initialFunds)
        riskToleranceNum == parseFloat(f.riskTolerance)
    IN  [entryPrice    |-> entryPriceError(entryPriceNum),
         stopLoss      |-> stopLossError(f.positionType, stopLossNum, entryPriceNum),
         initialFunds  |-> initialFundsError(initialFundsNum),
         riskTolerance |-> riskToleranceError(riskToleranceNum)]

\* Object.keys(newErrors).length === 0
validateInputs(f) == \A k \in ErrorKeys : newErrors(f)[k] = Undefined

(***************************************************************************)
(* calculateResults (lines 108-130)                                        *)
(***************************************************************************)
\* Variant: the risk tolerance taken as a percentage.
riskAmountOfPercent(initialFundsNum, riskToleranceNum) ==
    Mul(initialFundsNum, Div(riskToleranceNum, Rat(100, 1)))

riskAmountOf(initialFundsNum, riskToleranceNum) ==
    Mul(initialFundsNum, riskToleranceNum)

lossPerUnitOf(pt, entryPriceNum, stopLossNum) ==
    MathAbs(IF pt = "long" THEN Sub(entryPriceNum, stopLossNum)
            ELSE Sub(stopLossNum, entryPriceNum))

\* The record calculateResults hands to setResults for the fields f.
CalculationResults(f) ==
    LET entryPriceNum    == parseFloat(f.entryPrice)
        stopLossNum      == parseFloat(f.stopLoss)
        initialFundsNum  == parseFloat(f.initialFunds)
        riskToleranceNum == parseFloat(f.riskTolerance)
        riskAmount       == riskAmountOf(initialFundsNum, riskToleranceNum)
        lossPerUnit      == lossPerUnitOf(f.positionType, entryPriceNum, stopLossNum)
        positionSize     == Div(riskAmount, lossPerUnit)
        positionValue    == Mul(positionSize, entryPriceNum)
        leverage         == Div(positionValue, initialFundsNum)
    IN  [positionSize  |-> toFixed2(positionSize),
         positionValue |-> toFixed2(positionValue),
         leverage      |-> toFixed2(leverage),
         riskAmount    |-> toFixed2(riskAmount)]

\* onClick of the Calculate button (line 216): validateInputs always calls
\* setErrors; setResults is reached only when it returned true.
calculateResults ==
    /\ pc = "ready"
    /\ errors' = newErrors(CurrentFields)
    /\ IF validateInputs(CurrentFields)
       THEN /\ results' = Some(CalculationResults(CurrentFields))
            /\ used' = Some(CurrentFields)
       ELSE UNCHANGED <<results, used>>
    /\ lastOp' = "calculateResults"
    /\ UNCHANGED fx
    /\ UNCHANGED <<positionType, entryPrice, stopLoss, initialFunds,
                   riskTolerance, isLoaded, localStorage, pc, prev>>

\* The percentage the results note shows next to results.riskAmount
\* (line 236): (parseFloat(riskTolerance) * 100).toFixed(2)
notePercentage == toFixed2(Mul(parseFloat(riskTolerance), Rat(100, 1)))

(***************************************************************************)
(* localStorage effects (lines 29-75)                                      *)
(***************************************************************************)
\* Variant: the isLoaded guard left out.
saveEffectUnguarded(store, key, value, loaded) ==
    [store EXCEPT ![key] = Some(value)]

\* One save effect: if (isLoaded) localStorage.setItem(key, value), with the
\* isLoaded of the render that scheduled it.
saveEffect(store, key, value, loaded) ==
    IF loaded THEN [store EXCEPT ![key] = Some(value)] ELSE store

\* The five save effects in source order, for the rendered fields f.
saveEffects(store, f, loaded) ==
    LET s1 == saveEffect(store, "positionType", f.positionType, loaded)
        s2 == saveEffect(s1, "entryPrice", f.entryPrice, loaded)
        s3 == saveEffect(s2, "stopLoss", f.stopLoss, loaded)
        s4 == saveEffect(s3, "initialFunds", f.initialFunds, loaded)
    IN  saveEffect(s4, "riskTolerance", f.riskTolerance, loaded)

\* if (saved) setX(saved): null and the empty string are falsy.
restoredText(saved, current) ==
    IF saved # None /\ Len(saved[1]) > 0 THEN saved[1] ELSE current

restoredType(saved, current) ==
    IF saved # None /\ saved[1] # "" THEN saved[1] ELSE current

\* The fields after the load effect's setState calls.
loadEffect(store, f) ==
    Fields(restoredType(store["positionType"], f.positionType),
           restoredText(store["entryPrice"], f.entryPrice),
           restoredText(store["stopLoss"], f.stopLoss),
           restoredText(store["initialFunds"], f.initialFunds),
           restoredText(store["riskTolerance"], f.riskTolerance))

\* The effects of the first render, run in one flush: the load effect, then
\* the five save effects, which still see the first render's isLoaded.
MountEffects ==
    /\ pc = "mounted"
    /\ LET f == loadEffect(localStorage, CurrentFields)
       IN  /\ positionType' = f.positionType
           /\ entryPrice' = f.entryPrice
           /\ stopLoss' = f.stopLoss
           /\ initialFunds' = f.initialFunds
           /\ riskTolerance' = f.riskTolerance
    /\ isLoaded' = TRUE
    /\ localStorage' = saveEffects(localStorage, CurrentFields, isLoaded)
    /\ pc' = "loaded"
    /\ lastOp' = "MountEffects"
    /\ UNCHANGED fx
    /\ UNCHANGED <<results, errors, used, prev>>

\* The effects of the render that follows the load: isLoaded changed, so all
\* five save effects run again, now with the restored fields.
SaveEffects ==
    /\ pc = "loaded"
    /\ localStorage' = saveEffects(localStorage, CurrentFields, isLoaded)
    /\ pc' = "ready"
    /\ lastOp' = "SaveEffects"
    /\ UNCHANGED fx
    /\ UNCHANGED <<positionType, entryPrice, stopLoss, initialFunds,
                   riskTolerance, results, errors, isLoaded, used, prev>>

(***************************************************************************)
(* Field edits (lines 142, 153, 170, 182, 194, 206): the setter, the       *)
(* render it causes and the save effect of the changed field.  The inputs  *)
(* take events once the effects of mounting have run.                      *)
(***************************************************************************)
setPositionType(v) ==
    /\ pc = "ready"
    /\ positionType' = v
    /\ localStorage' = IF v # positionType
                       THEN saveEffect(localStorage, "positionType", v, isLoaded)
                       ELSE localStorage
    /\ prev' = None
    /\ lastOp' = "edit"
    /\ UNCHANGED fx
    /\ UNCHANGED <<entryPrice, stopLoss, initialFunds, riskTolerance, results,
                   errors, isLoaded, pc, used>>

setEntryPrice(v) ==
    /\ pc = "ready"
    /\ entryPrice' = v
    /\ localStorage' = IF v # entryPrice
                       THEN saveEffect(localStorage, "entryPrice", v, isLoaded)
                       ELSE localStorage
    /\ prev' = None
    /\ lastOp' = "edit"
    /\ UNCHANGED fx
    /\ UNCHANGED <<positionType, stopLoss, initialFunds, riskTolerance, results,
                   errors, isLoaded, pc, used>>

setStopLoss(v) ==
    /\ pc = "ready"
    /\ stopLoss' = v
    /\ localStorage' = IF v # stopLoss
                       THEN saveEffect(localStorage, "stopLoss", v, isLoaded)
                       ELSE localStorage
    /\ prev' = None
    /\ lastOp' = "edit"
    /\ UNCHANGED fx
    /\ UNCHANGED <<positionType, entryPrice, initialFunds, riskTolerance, results,
                   errors, isLoaded, pc, used>>

setInitialFunds(v) ==
    /\ pc = "ready"
    /\ initialFunds' = v
    /\ localStorage' = IF v # initialFunds
                       THEN saveEffect(localStorage, "initialFunds", v, isLoaded)
                       ELSE localStorage
    /\ prev' = None
    /\ lastOp' = "edit"
    /\ UNCHANGED fx
    /\ UNCHANGED <<positionType, entryPrice, stopLoss, riskTolerance, results,
                   errors, isLoaded, pc, used>>

\* Variant: an edit also clears the results.
setRiskToleranceClearing(v) ==
    /\ pc = "ready"
    /\ riskTolerance' = v
    /\ results' = None
    /\ localStorage' = IF v # riskTolerance
                       THEN saveEffect(localStorage, "riskTolerance", v, isLoaded)
                       ELSE localStorage
    /\ prev' = None
    /\ lastOp' = "edit"
    /\ UNCHANGED fx
    /\ UNCHANGED <<positionType, entryPrice, stopLoss, initialFunds,
                   errors, isLoaded, pc, used>>

setRiskTolerance(v) ==
    /\ pc = "ready"
    /\ riskTolerance' = v
    /\ localStorage' = IF v # riskTolerance
                       THEN saveEffect(localStorage, "riskTolerance", v, isLoaded)
                       ELSE localStorage
    /\ prev' = None
    /\ lastOp' = "edit"
    /\ UNCHANGED fx
    /\ UNCHANGED <<positionType, entryPrice, stopLoss, initialFunds, results,
                   errors, isLoaded, pc, used>>

(***************************************************************************)
(* Mounting                                                                *)
(***************************************************************************)
NoErrors == [k \in ErrorKeys |-> Undefined]

\* The state the useState initialisers give (lines 20-27).
InitialState ==
    /\ positionType = "long"
    /\ entryPrice = <<>>
    /\ stopLoss = <<>>
    /\ initialFunds = <<>>
    /\ riskTolerance = <<>>
    /\ results = None
    /\ errors = NoErrors
    /\ isLoaded = FALSE

\* The page is reloaded: the component is mounted afresh, localStorage stays.
\* prev records the fields of the session that ends, unless it ends before
\* its load effect has run (it then showed the initial values only).
Reload ==
    /\ positionType' = "long"
    /\ entryPrice' = <<>>
    /\ stopLoss' = <<>>
    /\ initialFunds' = <<>>
    /\ riskTolerance' = <<>>
    /\ results' = None
    /\ errors' = NoErrors
    /\ isLoaded' = FALSE
    /\ pc' = "mounted"
    /\ used' = None
    /\ prev' = IF isLoaded THEN Some(CurrentFields) ELSE prev
    /\ lastOp' = "Reload"
    /\ UNCHANGED fx
    /\ UNCHANGED localStorage

(***************************************************************************)
(* What the user can enter in a session                                    *)
(***************************************************************************)
PositionTypes == {"long", "short"}

EntryPriceTexts == {<<>>, <<"0">>, <<"1", "0", "0">>}

StopLossTexts == {<<>>, <<"9", "0">>, <<"1", "0", "0">>, <<"1", "1", "0">>}

InitialFundsTexts == {<<>>, <<"1", "0", "0", "0">>}

RiskToleranceTexts == {<<>>, <<"0", ".", "0", "2">>, <<"0", ".", "5">>, <<"2">>}

\* The first visit: nothing stored yet, the component just mounted.
Init ==
    /\ InitialState
    /\ localStorage = [k \in StorageKeys |-> None]
    /\ pc = "mounted"
    /\ used = None
    /\ prev = None
    /\ lastOp = "mount"
    /\ fx = None

Next ==
    \/ MountEffects
    \/ SaveEffects
    \/ \E v \in PositionTypes : setPositionType(v)
    \/ \E v \in EntryPriceTexts : setEntryPrice(v)
    \/ \E v \in StopLossTexts : setStopLoss(v)
    \/ \E v \in InitialFundsTexts : setInitialFunds(v)
    \/ \E v \in RiskToleranceTexts : setRiskTolerance(v)
    \/ calculateResults
    \/ Reload

Spec == Init /\ [][Next]_vars

(***************************************************************************)
(* validateInputs and calculateResults over a wider range of field texts:  *)
(* the form holds any texts of the ranges below (entered in a session that *)
(* has finished loading) and Calculate is pressed.                         *)
(***************************************************************************)
MaxTextLen == 2

Alphabet == {"0", "1", "."}

\* Every text over Alphabet of at most MaxTextLen characters.
ShortTexts == UNION {[1..n -> Alphabet] : n \in 0..MaxTextLen}

PriceTexts ==
    ShortTexts \cup {<<"-", "5">>, <<"5", "0">>, <<"9", "0">>,
                     <<"1", "0", "0">>, <<"1", "1", "0">>}

FundsTexts == {<<>>, <<"0">>, <<"1", "0", "0", "0">>}

ToleranceTexts ==
    {<<>>, <<"0">>, <<"0", ".", "0", "2">>, <<"0", ".", "5">>, <<"1">>,
     <<"2">>, <<"1", "0", "0">>, <<"1", "0", "1">>}

InitInputs ==
    /\ positionType \in PositionTypes
    /\ entryPrice \in PriceTexts
    /\ stopLoss \in PriceTexts
    /\ initialFunds \in FundsTexts
    /\ riskTolerance \in ToleranceTexts
    /\ results = None
    /\ errors = NoErrors
    /\ isLoaded = TRUE
    /\ localStorage = [k \in StorageKeys |-> Some(CurrentFields[k])]
    /\ pc = "ready"
    /\ used = None
    /\ prev = None
    /\ lastOp = "edit"
    /\ fx = None

SpecInputs == InitInputs /\ [][calculateResults]_vars

(***************************************************************************)
(* Fixed risk mode.  The specification describes a variant of the form     *)
(* with a riskMode (percentage | fixed) and a riskAmount field (sections   *)
(* 3, 4.1 and 4.2); the component above has neither.  The validator and    *)
(* calculator of that variant are written here from the specification.     *)
(* fx is None until Calculate has been pressed on the form fx.inputs.      *)
(***************************************************************************)
RiskModes == {"percentage", "fixed"}

FxErrorKeys == ErrorKeys \cup {"riskAmount"}

FxInvalid == "invalid"

\* Rule 1 and rule 3: invalid unless a finite number > 0.
fxPositiveError(x) == IF IsFinite(x) /\ Gt(x, Rat(0, 1)) THEN Undefined ELSE FxInvalid

\* Rule 2: the comparison with entryPrice applies only if entryPrice is valid.
fxStopLossError(pt, stopLossNum, entryPriceNum) ==
    IF fxPositiveError(stopLossNum) # Undefined THEN FxInvalid
    ELSE IF fxPositiveError(entryPriceNum) # Undefined THEN Undefined
    ELSE IF pt = "long" /\ Geq(stopLossNum, entryPriceNum) THEN FxInvalid
    ELSE IF pt = "short" /\ Leq(stopLossNum, entryPriceNum) THEN FxInvalid
    ELSE Undefined

\* Rule 4, percentage mode: riskTolerance in (0, 100].
fxRiskToleranceError(riskMode, riskToleranceNum) ==
    IF riskMode # "percentage" THEN Undefined
    ELSE IF /\ IsFinite(riskToleranceNum)
            /\ Gt(riskToleranceNum, Rat(0, 1))
            /\ Leq(riskToleranceNum, Rat(100, 1))
    THEN Undefined
    ELSE FxInvalid

\* Variant: the comparison with initialFunds left out.
fxRiskAmountErrorNoFunds(riskMode, riskAmountNum, initialFundsNum) ==
    IF riskMode # "fixed" THEN Undefined
    ELSE IF ~(IsFinite(riskAmountNum) /\ Gt(riskAmountNum, Rat(0, 1))) THEN FxInvalid
    ELSE Undefined

\* Rule 4, fixed mode: riskAmount > 0 and not above initialFunds.
fxRiskAmountError(riskMode, riskAmountNum, initialFundsNum) ==
    IF riskMode # "fixed" THEN Undefined
    ELSE IF ~(IsFinite(riskAmountNum) /\ Gt(riskAmountNum, Rat(0, 1))) THEN FxInvalid
    ELSE IF Gt(riskAmountNum, initialFundsNum) THEN FxInvalid
    ELSE Undefined

\* validate(inputs)
fxValidate(i) ==
    LET e == parseFloat(i.entryPrice)
        sl == parseFloat(i.stopLoss)
        fu == parseFloat(i.initialFunds)
    IN  [entryPrice    |-> fxPositiveError(e),
         stopLoss      |-> fxStopLossError(i.positionType, sl, e),
         initialFunds  |-> fxPositiveError(fu),
         riskTolerance |-> fxRiskToleranceError(i.riskMode, parseFloat(i.riskTolerance)),
         riskAmount    |-> fxRiskAmountError(i.riskMode, parseFloat(i.riskAmount), fu)]

\* calculate(inputs), section 4.2.
fxCalculate(i) ==
    LET e == parseFloat(i.entryPrice)
        sl == parseFloat(i.stopLoss)
        fu == parseFloat(i.initialFunds)
        riskAmount == IF i.riskMode = "percentage"
                      THEN Mul(fu, Div(parseFloat(i.riskTolerance), Rat(100, 1)))
                      ELSE parseFloat(i.riskAmount)
        lossPerUnit == MathAbs(Sub(e, sl))
        positionSize == Div(riskAmount, lossPerUnit)
        positionValue == Mul(positionSize, e)
        leverage == Div(positionValue, fu)
    IN  [positionSize  |-> toFixed2(positionSize),
         positionValue |-> toFixed2(positionValue),
         leverage      |-> toFixed2(leverage),
         riskAmount    |-> toFixed2(riskAmount)]

FxPriceTexts == {<<>>, <<"4", "5">>, <<"5", "0">>, <<"5", "5">>}

FxFundsTexts == {<<>>, <<"1", "0">>, <<"5", "0", "0">>}

FxToleranceTexts == {<<>>, <<"2">>, <<"1", "0", "1">>}

FxAmountTexts == {<<>>, <<"0">>, <<"2", "5">>, <<"5", "0", "0">>, <<"6", "0", "0">>}

FxInputs ==
    [positionType : PositionTypes, entryPrice : FxPriceTexts,
     stopLoss : FxPriceTexts, initialFunds : FxFundsTexts,
     riskMode : RiskModes, riskTolerance : FxToleranceTexts,
     riskAmount : FxAmountTexts]

\* Calculate on the form i: validate, and calculate if nothing is invalid.
fxPressCalculate(i) ==
    /\ fx = None
    /\ LET errs == fxValidate(i)
       IN  fx' = Some([inputs |-> i,
                       errors |-> errs,
                       results |-> IF \A k \in FxErrorKeys : errs[k] = Undefined
                                   THEN Some(fxCalculate(i))
                                   ELSE None])
    /\ UNCHANGED <<positionType, entryPrice, stopLoss, initialFunds,
                   riskTolerance, results, errors, isLoaded, localStorage,
                   pc, used, prev, lastOp>>

NextFixed == \E i \in FxInputs : fxPressCalculate(i)

SpecFixed == Init /\ [][NextFixed]_vars

(***************************************************************************)
(* Properties                                                              *)
(***************************************************************************)
Zero == Rat(0, 1)

\* x is a number greater than 0.
Positive(x) == IsFinite(x) /\ x.n > 0

\* x and y are numbers and x is less than y.
Below(x, y) == IsFinite(x) /\ IsFinite(y) /\ x.n * y.d < y.n * x.d

\* The validation rules, stated on the parsed fields f: entryPrice > 0,
\* stopLoss > 0 and on the right side of entryPrice, initialFunds > 0 and
\* riskTolerance strictly between 0 and 1.
RulesHold(f) ==
    LET e == parseFloat(f.entryPrice)
        sl == parseFloat(f.stopLoss)
        fu == parseFloat(f.initialFunds)
        rt == parseFloat(f.riskTolerance)
    IN  /\ Positive(e)
        /\ Positive(sl)
        /\ f.positionType = "long" => Below(sl, e)
        /\ f.positionType = "short" => Below(e, sl)
        /\ Positive(fu)
        /\ Positive(rt)
        /\ Below(rt, Rat(1, 1))

\* C1: results are written only by a calculation whose validation found no
\* invalid field: whenever results are present, the field values they were
\* computed from satisfy every validation rule, and a Calculate step that
\* writes results leaves an empty error mapping.
C1_ResultsOnlyWhenValid ==
    /\ results # None => used # None /\ RulesHold(used[1])
    /\ (lastOp = "calculateResults" /\ used = Some(CurrentFields))
          => errors = NoErrors /\ RulesHold(CurrentFields)
    /\ (lastOp = "calculateResults" /\ errors # NoErrors)
          => ~RulesHold(CurrentFields)

C1_Witness ==
    /\ lastOp = "calculateResults"
    /\ results # None
    /\ used = Some(CurrentFields)
    /\ errors = NoErrors

\* C4: results change only through a Calculate whose validation passes:
\* a field edit or a Calculate that leaves a non-empty error mapping leaves
\* results as they were, and a Calculate that passes replaces all four
\* values by those computed from the current fields.
C4_ResultsFrame ==
    [][/\ lastOp' = "edit" => results' = results
       /\ (lastOp' = "calculateResults" /\ errors' # NoErrors)
             => results' = results
       /\ (lastOp' = "calculateResults" /\ errors' = NoErrors)
             => results' = Some(CalculationResults(CurrentFields))]_vars

\* Results computed from other field values than the current ones are still
\* there after a Calculate that failed validation.
C4_Witness ==
    /\ lastOp = "calculateResults"
    /\ errors # NoErrors
    /\ results # None
    /\ used # Some(CurrentFields)

StoredAre(store, f) == \A k \in StorageKeys : store[k] = Some(f[k])

\* C9: persisted field values survive a reload: storage is written only in
\* steps that start with isLoaded set, and once the load and save effects
\* of a session have run (and before its first edit) the fields and the
\* stored values are those the fields had when the previous session ended.
C9_PersistRoundTrip ==
    [][/\ localStorage' # localStorage => isLoaded
       /\ (pc' = "ready" /\ prev' # None)
             => /\ CurrentFields' = prev'[1]
                /\ StoredAre(localStorage', prev'[1])]_vars

C9_Witness ==
    /\ pc = "ready"
    /\ prev # None
    /\ prev[1].positionType = "short"
    /\ prev[1].entryPrice # <<>>
    /\ prev[1].stopLoss = <<>>
    /\ lastOp = "SaveEffects"

\* C10: the results note is self-consistent: the displayed riskAmount is the
\* displayed percentage of the initialFunds used in the calculation.
C10_NoteConsistent ==
    results # None =>
        results[1].riskAmount =
            toFixed2(Mul(Div(notePercentage, Rat(100, 1)),
                         parseFloat(used[1].initialFunds)))

\* The fields of the worked example, with the risk tolerance text rt.
ExampleFields(rt) ==
    Fields("long", <<"1", "0", "0">>, <<"9", "0">>, <<"1", "0", "0", "0">>, rt)

ExampleResults ==
    [positionSize  |-> Rat(2, 1),
     positionValue |-> Rat(200, 1),
     leverage      |-> Rat(20, 100),
     riskAmount    |-> Rat(20, 1)]

\* C2 as stated: with long, 100, 90, 1000 and riskTolerance 2, Calculate
\* passes validation and yields riskAmount 20, positionSize 2, positionValue
\* 200 and leverage 0.20.
C2_ExamplePercent ==
    (lastOp = "calculateResults" /\ CurrentFields = ExampleFields(<<"2">>))
        => errors = NoErrors /\ results = Some(ExampleResults)

\* C2 amended: the same with riskTolerance 0.02, a fraction: riskAmount is
\* initialFunds * riskTolerance; with riskTolerance 2 validation fails and
\* there are no results.
C2_ExampleFraction ==
    /\ (lastOp = "calculateResults"
           /\ CurrentFields = ExampleFields(<<"0", ".", "0", "2">>))
          => errors = NoErrors /\ results = Some(ExampleResults)
    /\ (lastOp = "calculateResults" /\ CurrentFields = ExampleFields(<<"2">>))
          => errors.riskTolerance # Undefined /\ results = None

C2_Witness ==
    /\ lastOp = "calculateResults"
    /\ CurrentFields = ExampleFields(<<"0", ".", "0", "2">>)
    /\ results # None

\* C3 as stated: riskTolerance is accepted exactly when in (0, 100]: an
\* error for 0 and for 101, none for 100, whatever the other fields hold.
C3_RangePercent ==
    lastOp = "calculateResults" =>
        /\ riskTolerance \in {<<"0">>, <<"1", "0", "1">>}
              => errors.riskTolerance # Undefined
        /\ riskTolerance = <<"1", "0", "0">>
              => errors.riskTolerance = Undefined

\* C3 amended: riskTolerance is accepted exactly when it is a number
\* strictly between 0 and 1, whatever the other fields hold.
C3_RangeFraction ==
    lastOp = "calculateResults" =>
        LET rt == parseFloat(riskTolerance)
        IN  errors.riskTolerance = Undefined
                <=> (Positive(rt) /\ Below(rt, Rat(1, 1)))

C3_Witness ==
    /\ lastOp = "calculateResults"
    /\ riskTolerance = <<"1">>
    /\ errors.riskTolerance # Undefined
    /\ errors.entryPrice = Undefined
    /\ errors.stopLoss = Undefined
    /\ errors.initialFunds = Undefined

\* C5: when stopLoss is a number > 0 and entryPrice is invalid (not a
\* number, or <= 0), validation reports an entryPrice error and no stopLoss
\* error, for long and for short.
C5_NoComparisonOnInvalidEntry ==
    (/\ lastOp = "calculateResults"
     /\ Positive(parseFloat(stopLoss))
     /\ ~Positive(parseFloat(entryPrice)))
        => /\ errors.entryPrice # Undefined
           /\ errors.stopLoss = Undefined

\* C6: for positive entryPrice, stopLoss and initialFunds, validation
\* reports no stopLoss error for long with stopLoss < entryPrice and for
\* short with stopLoss > entryPrice, and reports one for long with
\* stopLoss >= entryPrice and for short with stopLoss <= entryPrice.
C6_StopLossSide ==
    LET e == parseFloat(entryPrice)
        sl == parseFloat(stopLoss)
    IN  (/\ lastOp = "calculateResults"
         /\ Positive(e)
         /\ Positive(sl)
         /\ Positive(parseFloat(initialFunds)))
            => IF positionType = "long"
               THEN errors.stopLoss = Undefined <=> Below(sl, e)
               ELSE errors.stopLoss = Undefined <=> Below(e, sl)

C6_Witness ==
    /\ lastOp = "calculateResults"
    /\ positionType = "short"
    /\ Below(parseFloat(entryPrice), parseFloat(stopLoss))
    /\ Positive(parseFloat(entryPrice))
    /\ Positive(parseFloat(initialFunds))
    /\ errors.stopLoss = Undefined

\* C8: in fixed risk mode a riskAmount greater than initialFunds always
\* yields a riskAmount error, whatever the other fields hold, and no
\* calculation is performed with a risk amount above the funds.
C8_FixedAmountWithinFunds ==
    fx # None =>
        LET i == fx[1].inputs
            amount == parseFloat(i.riskAmount)
            funds == parseFloat(i.initialFunds)
        IN  /\ (i.riskMode = "fixed" /\ Below(funds, amount))
                  => fx[1].errors.riskAmount # Undefined /\ fx[1].results = None
            /\ (i.riskMode = "fixed" /\ fx[1].results # None)
                  => ~Below(funds, fx[1].results[1].riskAmount)

C8_Witness ==
    /\ fx # None
    /\ fx[1].inputs.riskMode = "fixed"
    /\ fx[1].inputs.riskAmount = <<"6", "0", "0">>
    /\ fx[1].inputs.initialFunds = <<"5", "0", "0">>
    /\ fx[1].errors.riskAmount # Undefined
    /\ fx[1].errors.entryPrice = Undefined
    /\ fx[1].errors.stopLoss = Undefined

====
